---- MODULE Spec2Model ----
(***************************************************************************)
(* A model of upc_merge_tool_upc_format_fixed.py: the UPC normaliser, the  *)
(* description parser, the category splitter and the merge pipeline of the *)
(* Streamlit script.                                                       *)
(*                                                                         *)
(* Text is a sequence of one-character strings, so that the character      *)
(* level operations of the script (regular expressions, zfill, lower,      *)
(* strip, split) are computed and not assumed.  A spreadsheet cell is a    *)
(* record [k, s]: k = "str" is a text cell with text s, k = "nan" is a     *)
(* missing cell (pandas NaN), k = "none" is Python None, k = "float" is a   *)
(* whole number that pandas holds as a float (s its integer digits).       *)
(***************************************************************************)
EXTENDS Integers, Sequences, FiniteSets, TLC

VARIABLES
    fn_pc, fn_in, fn_out,        \* a single call of one of the leaf functions
    pc,                          \* position of the script run
    upc_file, partner_file,      \* the two uploaded workbooks
    button,                      \* st.button("Merge & Download") of this run
    header_row, upc_df, partner_df,
    desc_col, upc_col, brand_col, cat_col,
    new_upcs_df, new_rows, merged_df,
    steps,                       \* the pipeline steps this run has executed
    message,                     \* what the page shows: an error or the download
    run, prev_output             \* which merge this is, and the first merge's output

fnVars == <<fn_pc, fn_in, fn_out>>
pipeVars == <<pc, upc_file, partner_file, button, header_row, upc_df, partner_df,
              desc_col, upc_col, brand_col, cat_col, new_upcs_df, new_rows,
              merged_df, steps, message, run, prev_output>>
vars == <<fn_pc, fn_in, fn_out, pc, upc_file, partner_file, button, header_row,
          upc_df, partner_df, desc_col, upc_col, brand_col, cat_col, new_upcs_df,
          new_rows, merged_df, steps, message, run, prev_output>>

----------------------------------------------------------------------------
(* Characters and text *)

Digit == {"0", "1", "2", "3", "4", "5", "6", "7", "8", "9"}
\* what str.strip() trims and the regular expressions' \s matches
Space == {" ", "\t", "\n"}

\* str.lower() on one character
LowerChar(c) ==
    CASE c = "A" -> "a" [] c = "B" -> "b" [] c = "C" -> "c" [] c = "D" -> "d"
      [] c = "E" -> "e" [] c = "F" -> "f" [] c = "G" -> "g" [] c = "H" -> "h"
      [] c = "I" -> "i" [] c = "J" -> "j" [] c = "K" -> "k" [] c = "L" -> "l"
      [] c = "M" -> "m" [] c = "N" -> "n" [] c = "O" -> "o" [] c = "P" -> "p"
      [] c = "Q" -> "q" [] c = "R" -> "r" [] c = "S" -> "s" [] c = "T" -> "t"
      [] c = "U" -> "u" [] c = "V" -> "v" [] c = "W" -> "w" [] c = "X" -> "x"
      [] c = "Y" -> "y" [] c = "Z" -> "z" [] OTHER -> c

\* str.upper() on one character
UpperChar(c) ==
    CASE c = "a" -> "A" [] c = "b" -> "B" [] c = "c" -> "C" [] c = "d" -> "D"
      [] c = "e" -> "E" [] c = "f" -> "F" [] c = "g" -> "G" [] c = "h" -> "H"
      [] c = "i" -> "I" [] c = "j" -> "J" [] c = "k" -> "K" [] c = "l" -> "L"
      [] c = "m" -> "M" [] c = "n" -> "N" [] c = "o" -> "O" [] c = "p" -> "P"
      [] c = "q" -> "Q" [] c = "r" -> "R" [] c = "s" -> "S" [] c = "t" -> "T"
      [] c = "u" -> "U" [] c = "v" -> "V" [] c = "w" -> "W" [] c = "x" -> "X"
      [] c = "y" -> "Y" [] c = "z" -> "Z" [] OTHER -> c

\* str.lower()
RECURSIVE Lower(_)
Lower(s) == IF s = <<>> THEN <<>> ELSE <<LowerChar(Head(s))>> \o Lower(Tail(s))

\* str.upper()
RECURSIVE Upper(_)
Upper(s) == IF s = <<>> THEN <<>> ELSE <<UpperChar(Head(s))>> \o Upper(Tail(s))

RECURSIVE LStrip(_)
LStrip(s) == IF s # <<>> /\ Head(s) \in Space THEN LStrip(Tail(s)) ELSE s

RECURSIVE RStrip(_)
RStrip(s) ==
    IF s # <<>> /\ s[Len(s)] \in Space THEN RStrip(SubSeq(s, 1, Len(s) - 1)) ELSE s

\* str.strip()
Strip(s) == RStrip(LStrip(s))

RECURSIVE Zeros(_)
Zeros(n) == IF n <= 0 THEN <<>> ELSE <<"0">> \o Zeros(n - 1)

\* Does text p occur in s starting at index i (1-based)?
StartsAt(s, i, p) ==
    /\ i >= 1
    /\ i + Len(p) - 1 <= Len(s)
    /\ \A k \in 1..Len(p) : s[i + k - 1] = p[k]

\* Length of the longest run of digits of s that starts at index i
RECURSIVE DigitRun(_, _)
DigitRun(s, i) ==
    IF i <= Len(s) /\ s[i] \in Digit THEN 1 + DigitRun(s, i + 1) ELSE 0

----------------------------------------------------------------------------
(* Cells *)

StrCell(s) == [k |-> "str", s |-> s]
NaN == [k |-> "nan", s |-> <<>>]
NoneCell == [k |-> "none", s |-> <<>>]
FloatCell(s) == [k |-> "float", s |-> s]

\* pandas isna()
IsNA(c) == c.k \in {"nan", "none"}

\* Series.fillna(v)
FillNA(c, v) == IF IsNA(c) THEN StrCell(v) ELSE c

\* Series.astype(str) on one cell: str() of the Python value
AsStr(c) ==
    CASE c.k = "str" -> c.s
      [] c.k = "nan" -> <<"n", "a", "n">>
      [] c.k = "none" -> <<"N", "o", "n", "e">>
      [] c.k = "float" -> c.s \o <<".", "0">>

----------------------------------------------------------------------------
(* UPC Normalizer: lines 84-90 *)

UPCWidth == 12

\* Series.str.zfill(width): pad on the left with "0" up to width, never cut.
\* (The texts the script pads hold digits only, so the sign handling of
\* Python's own str.zfill never comes into play.)
ZFill(s, width) == IF Len(s) >= width THEN s ELSE Zeros(width - Len(s)) \o s

\* Series.str.replace(r'[^\d]', '', regex=True): drop every non-digit
RECURSIVE RemoveNonDigits(_)
RemoveNonDigits(s) ==
    IF s = <<>> THEN <<>>
    ELSE IF Head(s) \in Digit THEN <<Head(s)>> \o RemoveNonDigits(Tail(s))
    ELSE RemoveNonDigits(Tail(s))

\* Index of the first digit of s at or after i, 0 when there is none
RECURSIVE FirstDigitFrom(_, _)
FirstDigitFrom(s, i) ==
    IF i > Len(s) THEN 0
    ELSE IF s[i] \in Digit THEN i
    ELSE FirstDigitFrom(s, i + 1)

\* Series.str.extract(r'(\d+)', expand=False): the first run of digits, NaN
\* when the text holds no digit
ExtractDigits(s) ==
    LET i == FirstDigitFrom(s, 1)
    IN  IF i = 0 THEN NaN ELSE StrCell(SubSeq(s, i, i + DigitRun(s, i) - 1))

\* The catalog side before the fix the page announces (line 11): the first
\* run of digits only.
NormalizeCatalog_FirstRun(c) ==
    StrCell(ZFill(FillNA(ExtractDigits(AsStr(c)), <<>>).s, UPCWidth))

\* lines 84-89: upc_df[upc_col].astype(str).str.replace(...).str.zfill(12)
NormalizeCatalog(c) == StrCell(ZFill(RemoveNonDigits(AsStr(c)), UPCWidth))

\* The partner side without its .fillna(''): zfill leaves a NaN a NaN.
NormalizePartner_NoFillNA(c) ==
    LET e == ExtractDigits(AsStr(c))
    IN  IF IsNA(e) THEN e ELSE StrCell(ZFill(e.s, UPCWidth))

\* line 90: partner_df['barcode'].astype(str).str.extract(r'(\d+)',
\* expand=False).fillna('').str.zfill(12)
NormalizePartner(c) ==
    StrCell(ZFill(FillNA(ExtractDigits(AsStr(c)), <<>>).s, UPCWidth))

----------------------------------------------------------------------------
(* Inputs of the leaf functions: texts put together from a few fragments *)

MaxUPCFrags == 3

\* "0-51900-40077-3" is the page's own example (line 11)
t_example == <<"0", "-", "5", "1", "9", "0", "0", "-", "4", "0", "0", "7", "7", "-", "3">>
t_tendigits == <<"0", "5", "1", "9", "0", "0", "4", "0", "0", "7">>

UPCFrags == {<<"0">>, <<"5">>, <<"-">>, <<" ">>, <<"a">>, t_tendigits, t_example}

\* All concatenations of at most n fragments of F
RECURSIVE Texts(_, _)
Texts(F, n) ==
    IF n = 0 THEN {<<>>}
    ELSE LET T == Texts(F, n - 1) IN T \cup {t \o f : t \in T, f \in F}

UPCCells ==
    {StrCell(t) : t \in Texts(UPCFrags, MaxUPCFrags)}
        \cup {NaN}
        \cup {FloatCell(t) : t \in {<<"5">>, t_tendigits \o <<"5">>}}

\* A data frame: its column names and its rows, each row one cell per column
EmptyDF == [cols |-> <<>>, rows |-> <<>>]

\* The catalog's frame also holds the STATUS column of line 92, one value per
\* row once the rows are classified
EmptyCatalogDF == [cols |-> <<>>, rows |-> <<>>, status |-> <<>>]

\* No column: Python's None
NoCol == <<"None">>

\* No catalog workbook and no partner workbook uploaded
NoCatalog == [present |-> FALSE, lead |-> 0, header |-> <<>>, sheets |-> <<>>]
NoPartner == [present |-> FALSE, cols |-> <<>>, rows |-> <<>>]

\* The state of the page before anything ran
NoRun ==
    /\ button = FALSE
    /\ header_row = 0
    /\ upc_df = EmptyCatalogDF /\ partner_df = EmptyDF
    /\ desc_col = NoCol /\ upc_col = NoCol /\ brand_col = NoCol /\ cat_col = NoCol
    /\ new_upcs_df = [parsed |-> FALSE, rows |-> <<>>]
    /\ new_rows = <<>>
    /\ merged_df = EmptyDF
    /\ steps = {}
    /\ message = "none"

NoPipeline ==
    /\ pc = "off"
    /\ upc_file = NoCatalog /\ partner_file = NoPartner
    /\ NoRun
    /\ run = "none"
    /\ prev_output = EmptyDF

----------------------------------------------------------------------------
(* The UPC normaliser applied to one value of either column *)

InitUPC ==
    /\ fn_pc = "input"
    /\ fn_in \in UPCCells
    /\ fn_out = NaN
    /\ NoPipeline

NormalizeCatalogCall ==
    /\ fn_pc = "input"
    /\ fn_out' = NormalizeCatalog(fn_in)
    /\ fn_pc' = "catalog"
    /\ UNCHANGED <<fn_in, pipeVars>>

NormalizePartnerCall ==
    /\ fn_pc = "input"
    /\ fn_out' = NormalizePartner(fn_in)
    /\ fn_pc' = "partner"
    /\ UNCHANGED <<fn_in, pipeVars>>

NextUPC == NormalizeCatalogCall \/ NormalizePartnerCall

SpecUPC == InitUPC /\ [][NextUPC]_vars

AllDigits(s) == \A i \in 1..Len(s) : s[i] \in Digit
HasDigit(s) == \E i \in 1..Len(s) : s[i] \in Digit
IsDigitChar(c) == c \in Digit
MaxOf(a, b) == IF a >= b THEN a ELSE b

\* C1: a catalog value whose text holds a digit is normalised to all the
\* digits of the text, in their order, behind as many zeros as it takes to
\* reach 12 characters; it is not all zeros when some digit of the text is
\* not zero.
C1_CatalogNormalization ==
    (fn_pc = "catalog" /\ HasDigit(AsStr(fn_in))) =>
        LET raw == AsStr(fn_in)
            ds == SelectSeq(raw, IsDigitChar)
            out == fn_out.s
            pad == Len(out) - Len(ds)
        IN  /\ fn_out.k = "str"
            /\ Len(out) = MaxOf(UPCWidth, Len(ds))
            /\ \A i \in 1..pad : out[i] = "0"
            /\ \A i \in 1..Len(ds) : out[pad + i] = ds[i]
            /\ (\E i \in 1..Len(raw) : raw[i] \in Digit \ {"0"})
                   => \E i \in 1..Len(out) : out[i] # "0"

\* The page's example, separators and all, normalised to 051900400773
C1_Witness ==
    /\ fn_pc = "catalog"
    /\ fn_in = StrCell(t_example)
    /\ fn_out = StrCell(<<"0", "5", "1", "9", "0", "0", "4", "0", "0", "7", "7", "3">>)

----------------------------------------------------------------------------
(* Description Parser: extract_size_components, lines 25-38 *)

\* The size pattern's units in the order of its alternation:
\* (oz|fl oz|l|ml|gallon|gal)
SizeUnits == <<<<"o", "z">>, <<"f", "l", " ", "o", "z">>, <<"l">>, <<"m", "l">>, <<"g", "a", "l", "l", "o", "n">>, <<"g", "a", "l">>>>
t_ct == <<"c", "t">>

NoMatch == [ok |-> FALSE, value |-> <<>>, unit |-> <<>>]

\* The first alternative of SizeUnits, from the k-th on, that the text holds
\* at index j
RECURSIVE MatchUnit(_, _, _)
MatchUnit(s, j, k) ==
    IF k > Len(SizeUnits) THEN <<>>
    ELSE IF StartsAt(s, j, SizeUnits[k]) THEN SizeUnits[k]
    ELSE MatchUnit(s, j, k + 1)

\* \s?(unit) at index j: one whitespace character first (greedy), then none
MatchSpaceUnit(s, j) ==
    LET withSpace == IF j <= Len(s) /\ s[j] \in Space THEN MatchUnit(s, j + 1, 1) ELSE <<>>
    IN  IF withSpace # <<>> THEN withSpace ELSE MatchUnit(s, j, 1)

\* (\.\d+)? then the rest, the integer part ending before index j: the
\* fraction with f digits, f counting down (greedy), then no fraction
RECURSIVE MatchFraction(_, _, _)
MatchFraction(s, j, f) ==
    IF f = 0 THEN [unit |-> MatchSpaceUnit(s, j), end |-> j - 1]
    ELSE LET u == MatchSpaceUnit(s, j + 1 + f)
         IN  IF u # <<>> THEN [unit |-> u, end |-> j + f]
             ELSE MatchFraction(s, j, f - 1)

\* \d+ with d digits from index i, d counting down (greedy), then the rest
RECURSIVE MatchSizeAt(_, _, _)
MatchSizeAt(s, i, d) ==
    IF d = 0 THEN NoMatch
    ELSE LET j == i + d
             f == IF j <= Len(s) /\ s[j] = "." THEN DigitRun(s, j + 1) ELSE 0
             m == MatchFraction(s, j, f)
         IN  IF m.unit # <<>>
             THEN [ok |-> TRUE, value |-> SubSeq(s, i, m.end), unit |-> m.unit]
             ELSE MatchSizeAt(s, i, d - 1)

\* A search that goes on to the last match instead of stopping at the first
RECURSIVE SearchSize_Last(_, _)
SearchSize_Last(s, i) ==
    IF i > Len(s) THEN NoMatch
    ELSE LET later == SearchSize_Last(s, i + 1)
         IN  IF later.ok THEN later ELSE MatchSizeAt(s, i, DigitRun(s, i))

\* re.search of the size pattern: the match at the leftmost index that has one
RECURSIVE SearchSize(_, _)
SearchSize(s, i) ==
    IF i > Len(s) THEN NoMatch
    ELSE LET m == MatchSizeAt(s, i, DigitRun(s, i))
         IN  IF m.ok THEN m ELSE SearchSize(s, i + 1)

\* (\d+)\s?ct at index i with d digits, d counting down
RECURSIVE MatchCountAt(_, _, _)
MatchCountAt(s, i, d) ==
    IF d = 0 THEN NoMatch
    ELSE LET j == i + d
             hit == \/ (j <= Len(s) /\ s[j] \in Space /\ StartsAt(s, j + 1, t_ct))
                    \/ StartsAt(s, j, t_ct)
         IN  IF hit THEN [ok |-> TRUE, value |-> SubSeq(s, i, j - 1), unit |-> t_ct]
             ELSE MatchCountAt(s, i, d - 1)

\* re.search of the count pattern
RECURSIVE SearchCount(_, _)
SearchCount(s, i) ==
    IF i > Len(s) THEN NoMatch
    ELSE LET m == MatchCountAt(s, i, DigitRun(s, i))
         IN  IF m.ok THEN m ELSE SearchCount(s, i + 1)

\* extract_size_components(desc)
extract_size_components(desc) ==
    LET low == Lower(desc)
        size_match == SearchSize(low, 1)
        count_match == SearchCount(low, 1)
    IN  [sizeValue |-> IF size_match.ok THEN StrCell(size_match.value) ELSE NoneCell,
         sizeMeasure |-> IF size_match.ok THEN StrCell(Upper(size_match.unit)) ELSE NoneCell,
         itemCountValue |-> IF count_match.ok THEN StrCell(count_match.value) ELSE NoneCell,
         itemCountMeasure |-> IF count_match.ok THEN StrCell(Upper(t_ct)) ELSE NoneCell]

MaxDescFrags == 3

\* "Juice 16 oz 4 ct"
t_juice == <<"J", "u", "i", "c", "e", " ", "1", "6", " ", "o", "z", " ", "4", " ", "c", "t">>

DescFrags ==
    {<<"1", "6">>, <<"4">>, <<"1", ".", "5">>, <<" ">>, <<"o", "z">>, <<"O", "Z">>, <<"f", "l", " ", "o", "z">>, <<"l">>, <<"m", "l">>,
     <<"g", "a", "l", "l", "o", "n">>, <<"g", "a", "l">>, <<"c", "t">>, <<"x">>, t_juice}

DescTexts == Texts(DescFrags, MaxDescFrags)

InitDesc ==
    /\ fn_pc = "input"
    /\ fn_in \in {StrCell(t) : t \in DescTexts}
    /\ fn_out = NaN
    /\ NoPipeline

ParseCall ==
    /\ fn_pc = "input"
    /\ fn_out' = extract_size_components(fn_in.s)
    /\ fn_pc' = "parsed"
    /\ UNCHANGED <<fn_in, pipeVars>>

NextDesc == ParseCall

SpecDesc == InitDesc /\ [][NextDesc]_vars

\* t is digits, or digits "." digits
IsNumber(t) ==
    \/ (t # <<>> /\ AllDigits(t))
    \/ \E k \in 2..(Len(t) - 1) :
           /\ t[k] = "."
           /\ AllDigits(SubSeq(t, 1, k - 1))
           /\ AllDigits(SubSeq(t, k + 1, Len(t)))

\* Every way the text holds, from index i on, a number of n characters, w
\* (0 or 1) whitespace characters and then the unit u
SizeMatches(s) ==
    {m \in [i : 1..Len(s), n : 1..Len(s), w : {0, 1}, u : 1..Len(SizeUnits)] :
        /\ m.i + m.n - 1 <= Len(s)
        /\ s[m.i] \in Digit
        /\ StartsAt(s, m.i + m.n + m.w, SizeUnits[m.u])
        /\ (m.w = 1 => (m.i + m.n <= Len(s) /\ s[m.i + m.n] \in Space))
        /\ IsNumber(SubSeq(s, m.i, m.i + m.n - 1))}

\* The same for the count: n digits, w whitespace characters, "ct"
CountMatches(s) ==
    {m \in [i : 1..Len(s), n : 1..Len(s), w : {0, 1}] :
        /\ m.i + m.n - 1 <= Len(s)
        /\ s[m.i] \in Digit
        /\ StartsAt(s, m.i + m.n + m.w, t_ct)
        /\ (m.w = 1 => (m.i + m.n <= Len(s) /\ s[m.i + m.n] \in Space))
        /\ AllDigits(SubSeq(s, m.i, m.i + m.n - 1))}

Leftmost(M) == {m \in M : \A o \in M : m.i <= o.i}

\* The size fields are those of a leftmost match of the size pattern, and
\* absent when the pattern has no match, whatever the count pattern finds
SizeFromFirstMatch(s, out) ==
    LET M == SizeMatches(s)
    IN  IF M = {}
        THEN out.sizeValue = NoneCell /\ out.sizeMeasure = NoneCell
        ELSE \E m \in Leftmost(M) :
                 /\ out.sizeValue = StrCell(SubSeq(s, m.i, m.i + m.n - 1))
                 /\ out.sizeMeasure = StrCell(Upper(SizeUnits[m.u]))

\* The count fields are those of a leftmost match of the count pattern with
\* the unit "CT", and absent when the pattern has no match
CountFromFirstMatch(s, out) ==
    LET M == CountMatches(s)
    IN  IF M = {}
        THEN out.itemCountValue = NoneCell /\ out.itemCountMeasure = NoneCell
        ELSE \E m \in Leftmost(M) :
                 /\ out.itemCountValue = StrCell(SubSeq(s, m.i, m.i + m.n - 1))
                 /\ out.itemCountMeasure = StrCell(<<"C", "T">>)

\* The count that was found is an integer of its own: the digits are not the
\* tail of a longer number (no digit and no decimal point right before them)
CountIsStandalone(s, out) ==
    out.itemCountValue # NoneCell =>
        \E m \in Leftmost(CountMatches(s)) :
            /\ out.itemCountValue = StrCell(SubSeq(s, m.i, m.i + m.n - 1))
            /\ (m.i > 1 => s[m.i - 1] \notin Digit \cup {"."})

\* C9 as stated: size and count are extracted independently, each from the
\* first match of its pattern only, absent without a match, and the count is
\* a standalone integer followed by optional whitespace and "ct".
C9_StandaloneCount ==
    fn_pc = "parsed" =>
        /\ SizeFromFirstMatch(Lower(fn_in.s), fn_out)
        /\ CountFromFirstMatch(Lower(fn_in.s), fn_out)
        /\ CountIsStandalone(Lower(fn_in.s), fn_out)

\* C9 amended: size and count are extracted independently, each from the
\* leftmost match of its pattern only (a number, at most one whitespace
\* character, a unit; a run of digits, at most one whitespace character,
\* "ct"), absent without a match; the count's digits are a whole run of
\* digits, which may be the fraction of a decimal number.
C9_FirstMatchOnly ==
    fn_pc = "parsed" =>
        /\ SizeFromFirstMatch(Lower(fn_in.s), fn_out)
        /\ CountFromFirstMatch(Lower(fn_in.s), fn_out)
        /\ fn_out.itemCountValue # NoneCell =>
               \E m \in Leftmost(CountMatches(Lower(fn_in.s))) :
                   /\ fn_out.itemCountValue.s = SubSeq(Lower(fn_in.s), m.i, m.i + m.n - 1)
                   /\ (m.i > 1 => Lower(fn_in.s)[m.i - 1] \notin Digit)

\* "1.5ctJuice 16 oz 4 ct": two count tokens, of which the first is used,
\* its digits the fraction of 1.5; the size comes from its only token
C9_Witness ==
    /\ fn_pc = "parsed"
    /\ fn_in.s = <<"1", ".", "5">> \o t_ct \o t_juice
    /\ fn_out.sizeValue = StrCell(<<"1", "6">>)
    /\ fn_out.sizeMeasure = StrCell(<<"O", "Z">>)
    /\ fn_out.itemCountValue = StrCell(<<"5">>)
    /\ fn_out.itemCountMeasure = StrCell(<<"C", "T">>)

----------------------------------------------------------------------------
(* Category Splitter: lines 98-106 *)

t_NA == <<"N", "/", "A">>

\* str.split('>') of one text: every segment between the delimiters, of
\* which the empty text has one (the empty segment)
RECURSIVE SplitFrom(_, _, _)
SplitFrom(s, i, cur) ==
    IF i > Len(s) THEN <<cur>>
    ELSE IF s[i] = ">" THEN <<cur>> \o SplitFrom(s, i + 1, <<>>)
    ELSE SplitFrom(s, i + 1, Append(cur, s[i]))

Split(s) == SplitFrom(s, 1, <<>>)

\* Series.str.split('>', expand=True) of a column: one row of segments per
\* value, the frame as wide as the longest of them
SplitExpand(col) ==
    LET parts == [r \in 1..Len(col) |-> Split(col[r].s)]
        width == IF Len(col) = 0 THEN 0
                 ELSE CHOOSE w \in {Len(parts[r]) : r \in 1..Len(col)} :
                          \A r \in 1..Len(col) : Len(parts[r]) <= w
    IN  [width |-> width,
         cell |-> [r \in 1..Len(col) |->
                      [k \in 1..width |->
                          IF k <= Len(parts[r]) THEN StrCell(parts[r][k]) ELSE NoneCell]]]

\* cats[k].str.strip().fillna("N/A") if k in cats else "N/A" (k from 0 in
\* the script, from 1 here), for row r
Level(cats, k, r) ==
    IF k <= cats.width
    THEN LET c == cats.cell[r][k]
         IN  IF IsNA(c) THEN t_NA ELSE Strip(c.s)
    ELSE t_NA

\* lines 99-102 on the category column of the new rows
CategorySplit(col) ==
    LET cats == SplitExpand([r \in 1..Len(col) |-> FillNA(col[r], <<>>)])
    IN  [r \in 1..Len(col) |->
            [ch1Department |-> Level(cats, 1, r),
             ch2Category |-> Level(cats, 2, r),
             ch3Segment |-> Level(cats, 3, r)]]

MaxCatRows == 2

t_food == <<"F", "o", "o", "d">>
t_food3 == <<"F", "o", "o", "d", " ", ">", " ", "B", "e", "v", "e", "r", "a", "g", "e", "s", " ", ">", " ", "J", "u", "i", "c", "e">>

CatCells ==
    {NaN, StrCell(<<>>), StrCell(<<" ">>), StrCell(t_food), StrCell(t_food3),
     StrCell(<<"F", "o", "o", "d", " ", ">", " ", "B", "e", "v", "e", "r", "a", "g", "e", "s">>), StrCell(<<"a", ">", "b", " ", ">", " ", "c", ">", "d">>), StrCell(<<"F", "o", "o", "d", " ", ">">>)}

\* All sequences over S of 1 to n elements
SeqsUpTo(S, n) == UNION {[1..k -> S] : k \in 1..n}

InitCat ==
    /\ fn_pc = "input"
    /\ fn_in \in SeqsUpTo(CatCells, MaxCatRows)
    /\ fn_out = NaN
    /\ NoPipeline

CategorySplitCall ==
    /\ fn_pc = "input"
    /\ fn_out' = CategorySplit(fn_in)
    /\ fn_pc' = "split"
    /\ UNCHANGED <<fn_in, pipeVars>>

NextCat == CategorySplitCall

SpecCat == InitCat /\ [][NextCat]_vars

\* The segments of a text, said without the scan: the pieces between
\* neighbouring delimiters, the ends of the text counting as delimiters
Segment(s, k) ==
    LET cuts == {0, Len(s) + 1} \cup {i \in 1..Len(s) : s[i] = ">"}
        before(i) == Cardinality({c \in cuts : c < i})
        from == CHOOSE c \in cuts : before(c) = k - 1
        to == CHOOSE c \in cuts : before(c) = k
    IN  SubSeq(s, from + 1, to - 1)

NumSegments(s) == 1 + Cardinality({i \in 1..Len(s) : s[i] = ">"})

\* What the claim asks of one value: its first three segments, trimmed, with
\* "N/A" for each one that is missing; all three are missing when the value
\* is empty or absent
ExpectedLevel(c, k) ==
    IF IsNA(c) \/ c.s = <<>> THEN t_NA
    ELSE IF k <= NumSegments(c.s) THEN Strip(Segment(c.s, k))
    ELSE t_NA

\* C8: with a category column, every row's value is split on '>' into its
\* first three parts, each trimmed, and each missing part is "N/A": one
\* segment gives "N/A" for category and segment, an empty or absent value
\* gives "N/A" for all three levels.
C8_CategorySplit ==
    fn_pc = "split" =>
        \A r \in 1..Len(fn_in) :
            /\ fn_out[r].ch1Department = ExpectedLevel(fn_in[r], 1)
            /\ fn_out[r].ch2Category = ExpectedLevel(fn_in[r], 2)
            /\ fn_out[r].ch3Segment = ExpectedLevel(fn_in[r], 3)

----------------------------------------------------------------------------
(* Header Detector: detect_header_row, lines 18-23 *)

HeaderScanRows == 5

t_title == <<"t", "i", "t", "l", "e">>
t_description == <<"d", "e", "s", "c", "r", "i", "p", "t", "i", "o", "n">>
t_gtin == <<"g", "t", "i", "n">>
t_upc == <<"u", "p", "c">>
t_barcode == <<"b", "a", "r", "c", "o", "d", "e">>
t_brand == <<"b", "r", "a", "n", "d">>

Keywords == {t_title, t_description, t_gtin, t_upc, t_barcode}

Range(f) == {f[i] : i \in DOMAIN f}
MinOf(a, b) == IF a <= b THEN a ELSE b

\* line 20-21: the row, as lower-cased stripped texts, holds a keyword
RowHasKeyword(row) ==
    \E k \in 1..Len(row) : Strip(Lower(AsStr(row[k]))) \in Keywords

\* The scan of lines 19-23 from row i (counted from 0) on
RECURSIVE DetectFrom(_, _)
DetectFrom(raw, i) ==
    IF i >= MinOf(HeaderScanRows, Len(raw)) THEN 0
    ELSE IF RowHasKeyword(raw[i + 1]) THEN i
    ELSE DetectFrom(raw, i + 1)

detect_header_row(raw) == DetectFrom(raw, 0)

----------------------------------------------------------------------------
(* Reading the workbooks: lines 45-57 *)

\* A row of a sheet that is neither its header nor data: a title line
JunkRow == <<StrCell(<<"C", "a", "t", "a", "l", "o", "g">>), NaN, NaN>>

RECURSIVE JunkRows(_)
JunkRows(n) == IF n <= 0 THEN <<>> ELSE <<JunkRow>> \o JunkRows(n - 1)

\* pd.read_excel(..., header=None) of sheet s of the workbook: every row of
\* the sheet as data
RawSheet(wb, s) == JunkRows(wb.lead) \o <<wb.header>> \o wb.sheets[s]

DigitChar(k) == <<"0", "1", "2", "3", "4", "5", "6", "7", "8", "9">>[k + 1]

\* The name pandas gives a column whose header cell is empty
Unnamed(k) == <<"U", "n", "n", "a", "m", "e", "d", ":", " ">> \o <<DigitChar(k)>>

\* pd.read_excel(..., header=h) of one sheet: row h (from 0) names the
\* columns, the rows after it are the data
ReadSheet(raw, h) ==
    [cols |-> [k \in 1..Len(raw[h + 1]) |->
                  IF IsNA(raw[h + 1][k]) THEN Unnamed(k - 1) ELSE AsStr(raw[h + 1][k])],
     rows |-> SubSeq(raw, h + 2, Len(raw))]

\* A filter that also keeps the sheets of one data row
UsableSheet_AtLeastOne(sheet) == Len(sheet.rows) > 0

\* line 48: the sheets with more than one data row
UsableSheet(sheet) == Len(sheet.rows) > 1

\* A load that keeps every sheet
ValidSheets_All(all_sheets) == all_sheets

\* line 48
ValidSheets(all_sheets) == SelectSeq(all_sheets, UsableSheet)

\* line 53: pd.concat(valid_sheets, ignore_index=True); the sheets of a
\* workbook here have the same header, so the same columns
RECURSIVE ConcatRows(_)
ConcatRows(sheets) ==
    IF sheets = <<>> THEN <<>> ELSE Head(sheets).rows \o ConcatRows(Tail(sheets))

\* The index of column name in cols
ColIndex(cols, name) == CHOOSE i \in 1..Len(cols) : cols[i] = name

\* One column of a frame's rows
Column(rows, k) == [r \in 1..Len(rows) |-> rows[r][k]]

\* Python's truth value of a column choice: None and '' are false
Falsy(col) == col = NoCol \/ col = <<>>

\* lines 45-57.  With no usable sheet the run ends at line 51.
Load ==
    /\ pc = "idle"
    /\ upc_file.present /\ partner_file.present
    /\ LET raw == RawSheet(upc_file, 1)
           h == detect_header_row(raw)
           all_sheets == [s \in 1..Len(upc_file.sheets) |-> ReadSheet(RawSheet(upc_file, s), h)]
           valid_sheets == ValidSheets(all_sheets)
       IN  /\ header_row' = h
           /\ IF valid_sheets = <<>>
              THEN /\ message' = "No usable sheets found."
                   /\ pc' = "err_sheets"
                   /\ UNCHANGED <<upc_df, partner_df>>
              ELSE /\ upc_df' = [cols |-> [k \in 1..Len(valid_sheets[1].cols) |->
                                             Strip(Lower(valid_sheets[1].cols[k]))],
                                 rows |-> ConcatRows(valid_sheets),
                                 status |-> <<>>]
                   /\ partner_df' = [cols |-> partner_file.cols, rows |-> partner_file.rows]
                   /\ pc' = "loaded"
                   /\ UNCHANGED message
    /\ steps' = steps \cup {"load"}
    /\ UNCHANGED <<fnVars, upc_file, partner_file, button, desc_col, upc_col, brand_col,
                   cat_col, new_upcs_df, new_rows, merged_df, run, prev_output>>

----------------------------------------------------------------------------
(* Column mapping: lines 59-81 *)

\* AsStr(cell) holds the character ch
HoldsChar(s, ch) == \E i \in 1..Len(s) : s[i] = ch

\* line 72: the first column with a '>' in any of its values
CategoryColumn(df) ==
    LET hits == {k \in 1..Len(df.cols) :
                    \E r \in 1..Len(df.rows) : HoldsChar(AsStr(df.rows[r][k]), ">")}
    IN  IF hits = {} THEN NoCol
        ELSE df.cols[CHOOSE k \in hits : \A o \in hits : k <= o]

\* lines 59-61: 'title', else 'description', else what the user picks in
\* the select box (nothing to pick without columns)
DescChoices(columns) ==
    IF t_title \in Range(columns) THEN {t_title}
    ELSE IF t_description \in Range(columns) THEN {t_description}
    ELSE IF columns = <<>> THEN {NoCol}
    ELSE Range(columns)

\* lines 63-69: 'gtin', else 'upc', else 'barcode', else the user's pick
UpcChoices(columns) ==
    IF t_gtin \in Range(columns) THEN {t_gtin}
    ELSE IF t_upc \in Range(columns) THEN {t_upc}
    ELSE IF t_barcode \in Range(columns) THEN {t_barcode}
    ELSE IF columns = <<>> THEN {NoCol}
    ELSE Range(columns)

\* A select box keeps the user's pick from one run of the script to the next
\* as long as it is still among the options
Picks(choices, kept) == IF kept \in choices THEN {kept} ELSE choices

\* lines 59-81.  The page then waits for the button of line 83.
Resolve ==
    /\ pc = "loaded"
    /\ desc_col' \in Picks(DescChoices(upc_df.cols), desc_col)
    /\ upc_col' \in Picks(UpcChoices(upc_df.cols), upc_col)
    /\ brand_col' = IF t_brand \in Range(upc_df.cols) THEN t_brand ELSE NoCol
    /\ cat_col' = CategoryColumn(upc_df)
    /\ IF Falsy(desc_col') \/ Falsy(upc_col')
       THEN /\ message' = "Description and barcode column are required."
            /\ pc' = "err_cols"
       ELSE /\ pc' = "ready"
            /\ UNCHANGED message
    /\ steps' = steps \cup {"resolve"}
    /\ UNCHANGED <<fnVars, upc_file, partner_file, button, header_row, upc_df, partner_df,
                   new_upcs_df, new_rows, merged_df, run, prev_output>>

----------------------------------------------------------------------------
(* The merge: lines 83-140, run when the button is pressed *)

\* lines 84-89: the catalog's rows with column k normalised
NormalizeCatalogColumn(rows, k) ==
    [r \in 1..Len(rows) |-> [rows[r] EXCEPT ![k] = NormalizeCatalog(rows[r][k])]]

\* line 90: the partner's rows with column k normalised
NormalizePartnerColumn(rows, k) ==
    [r \in 1..Len(rows) |-> [rows[r] EXCEPT ![k] = NormalizePartner(rows[r][k])]]

\* lines 83-90: the button is pressed; the catalog's UPC column and the
\* partner's 'barcode' column are normalised.  A partner file without a
\* 'barcode' column raises KeyError at line 90.
PressMerge ==
    /\ pc = "ready"
    /\ button' = TRUE
    /\ upc_df' = [upc_df EXCEPT
                     !.rows = NormalizeCatalogColumn(upc_df.rows,
                                                     ColIndex(upc_df.cols, upc_col))]
    /\ IF "barcode" \in Range(partner_df.cols)
       THEN /\ partner_df' = [partner_df EXCEPT
                                 !.rows = NormalizePartnerColumn(
                                              partner_df.rows,
                                              ColIndex(partner_df.cols, "barcode"))]
            /\ pc' = "normalized"
            /\ UNCHANGED message
       ELSE /\ message' = "KeyError: 'barcode'"
            /\ pc' = "crashed"
            /\ UNCHANGED partner_df
    /\ steps' = steps \cup {"normalize"}
    /\ UNCHANGED <<fnVars, upc_file, partner_file, header_row, desc_col, upc_col, brand_col,
                   cat_col, new_upcs_df, new_rows, merged_df, run, prev_output>>

\* A classification against the first partner row only
Status_FirstPartnerOnly(x, barcodes) ==
    IF barcodes # <<>> /\ x = barcodes[1] THEN "Existing" ELSE "New"

\* line 92: 'Existing' if x in set(partner_df['barcode']) else 'New'
Status(x, barcodes) == IF x \in Range(barcodes) THEN "Existing" ELSE "New"

\* The indexes of the rows with STATUS 'New', in the order of the frame
RECURSIVE NewIndexes(_, _)
NewIndexes(status, i) ==
    IF i > Len(status) THEN <<>>
    ELSE IF status[i] = "New" THEN <<i>> \o NewIndexes(status, i + 1)
    ELSE NewIndexes(status, i + 1)

NoFields == [sizeValue |-> NoneCell, sizeMeasure |-> NoneCell,
             itemCountValue |-> NoneCell, itemCountMeasure |-> NoneCell]
NoLevels == [ch1Department |-> <<>>, ch2Category |-> <<>>, ch3Segment |-> <<>>]

\* lines 92-93: STATUS of every catalog row, and the frame of the new ones.
\* A row of new_upcs_df keeps its index label and its catalog cells; fields
\* and levels are the columns that lines 95-106 add.
Classify ==
    /\ pc = "normalized"
    /\ LET barcodes == Column(partner_df.rows, ColIndex(partner_df.cols, "barcode"))
           k == ColIndex(upc_df.cols, upc_col)
           status == [r \in 1..Len(upc_df.rows) |-> Status(upc_df.rows[r][k], barcodes)]
           new == NewIndexes(status, 1)
       IN  /\ upc_df' = [upc_df EXCEPT !.status = status]
           /\ new_upcs_df' = [parsed |-> FALSE,
                              rows |-> [i \in 1..Len(new) |->
                                           [index |-> new[i], cells |-> upc_df.rows[new[i]],
                                            fields |-> NoFields, levels |-> NoLevels]]]
    /\ pc' = "classified"
    /\ steps' = steps \cup {"classify"}
    /\ UNCHANGED <<fnVars, upc_file, partner_file, button, header_row, partner_df, desc_col,
                   upc_col, brand_col, cat_col, new_rows, merged_df, message, run,
                   prev_output>>

AllNA == [ch1Department |-> t_NA, ch2Category |-> t_NA, ch3Segment |-> t_NA]

\* lines 95-96: the description parser over the new rows.  Series.apply on
\* an empty series gives an empty series, not a frame: with no new row the
\* four parsed columns are not added to new_upcs_df.
WithFields(df) ==
    LET k == ColIndex(upc_df.cols, desc_col)
    IN  IF df.rows = <<>> THEN df
        ELSE [parsed |-> TRUE,
              rows |-> [i \in 1..Len(df.rows) |->
                           [df.rows[i] EXCEPT
                               !.fields = extract_size_components(
                                              FillNA(df.rows[i].cells[k], <<>>).s)]]]

\* lines 98-106: the category splitter over the new rows, or "N/A"
\* throughout without a category column
WithLevels(df) ==
    LET levels ==
            IF ~Falsy(cat_col)
            THEN CategorySplit(Column([i \in 1..Len(df.rows) |-> df.rows[i].cells],
                                      ColIndex(upc_df.cols, cat_col)))
            ELSE [i \in 1..Len(df.rows) |-> AllNA]
    IN  [df EXCEPT !.rows = [i \in 1..Len(df.rows) |->
                                [df.rows[i] EXCEPT !.levels = levels[i]]]]

\* Series.str.upper() on one cell: a missing value stays missing
StrUpper(c) == IF IsNA(c) THEN NaN ELSE StrCell(Upper(c.s))

\* lines 108-122: one output record per new row
NewRow(r) ==
    [barcode |-> r.cells[ColIndex(upc_df.cols, upc_col)],
     bh2Brand |-> IF ~Falsy(brand_col)
                  THEN StrUpper(r.cells[ColIndex(upc_df.cols, brand_col)])
                  ELSE StrCell(t_NA),
     name |-> r.cells[ColIndex(upc_df.cols, desc_col)],
     description |-> r.cells[ColIndex(upc_df.cols, desc_col)],
     ch1Department |-> StrCell(r.levels.ch1Department),
     ch2Category |-> StrCell(r.levels.ch2Category),
     ch3Segment |-> StrCell(r.levels.ch3Segment),
     itemCountValue |-> r.fields.itemCountValue,
     itemCountMeasure |-> r.fields.itemCountMeasure,
     sizeValue |-> r.fields.sizeValue,
     sizeMeasure |-> r.fields.sizeMeasure,
     partnerProduct |-> StrCell(<<"Y">>),
     awardPoints |-> StrCell(<<"N">>)]

\* A column read with no value in any row is a float column, which has no
\* .str accessor
FloatColumn(df, col) ==
    \A r \in 1..Len(df.rows) : df.rows[r][ColIndex(df.cols, col)].k \in {"nan", "float"}

\* What lines 95-122 raise on the frame of new rows, "no" when nothing.
\* With no new row the apply of line 95 gives an empty series, not a frame
\* (see WithFields): line 96 then adds no parsed column but a second column
\* named desc_col.  new_upcs_df[cat_col] at line 99, or
\* new_upcs_df[brand_col] at line 110, is then a frame when that column is
\* the description column, and a frame has no .str: AttributeError.  A brand
\* column with no value at all raises AttributeError at line 110.  And
\* without the parsed columns new_upcs_df['itemCountValue'] raises KeyError
\* at line 116.
BuildFails(df) ==
    IF df.rows = <<>> /\ ~Falsy(cat_col) /\ cat_col = desc_col
    THEN "AttributeError: 'DataFrame' object has no attribute 'str'"
    ELSE IF df.rows = <<>> /\ ~Falsy(brand_col) /\ brand_col = desc_col
    THEN "AttributeError: 'DataFrame' object has no attribute 'str'"
    ELSE IF ~Falsy(brand_col) /\ FloatColumn(upc_df, brand_col)
    THEN "AttributeError: Can only use .str accessor with string values"
    ELSE IF df.rows = <<>> THEN "KeyError: 'itemCountValue'"
    ELSE "no"

\* lines 95-122: the parsed fields, the category levels and the output
\* records of the new rows
BuildNewRows ==
    /\ pc = "classified"
    /\ IF BuildFails(new_upcs_df) = "no"
       THEN /\ new_upcs_df' = WithLevels(WithFields(new_upcs_df))
            /\ new_rows' = [i \in 1..Len(new_upcs_df.rows) |-> NewRow(new_upcs_df'.rows[i])]
            /\ pc' = "built"
            /\ UNCHANGED message
       ELSE /\ message' = BuildFails(new_upcs_df)
            /\ pc' = "crashed"
            /\ UNCHANGED <<new_upcs_df, new_rows>>
    /\ steps' = steps \cup {"build"}
    /\ UNCHANGED <<fnVars, upc_file, partner_file, button, header_row, upc_df, partner_df,
                   desc_col, upc_col, brand_col, cat_col, merged_df, run, prev_output>>

\* A reconciliation that keeps the new rows' own column order: the partner
\* columns they compute first, in the order of line 108, then the others
ReconcileRow_OwnOrder(r, cols) ==
    LET own == <<"barcode", "bh2Brand", "name", "description", "ch1Department",
                 "ch2Category", "ch3Segment", "itemCountValue", "itemCountMeasure",
                 "sizeValue", "sizeMeasure", "partnerProduct", "awardPoints">>
        InPartner(c) == c \in Range(cols)
        kept == SelectSeq(own, InPartner)
    IN  [k \in 1..Len(cols) |-> IF k <= Len(kept) THEN r[kept[k]] ELSE NoneCell]

\* lines 124-127 for one new row: a cell per partner column, in the partner
\* file's order; None where the new rows have no such column
ReconcileRow(r, cols) ==
    [k \in 1..Len(cols) |-> IF cols[k] \in DOMAIN r THEN r[cols[k]] ELSE NoneCell]

\* A concatenation with the new rows first
ConcatFrames_NewFirst(a, b) == [cols |-> a.cols, rows |-> b \o a.rows]

\* line 129: pd.concat([partner_df, new_rows], ignore_index=True); the two
\* frames have the same columns in the same order
ConcatFrames(a, b) == [cols |-> a.cols, rows |-> a.rows \o b]

\* lines 124-140: the new rows in the partner file's columns, the merged
\* frame, written out and offered for download
Output ==
    /\ pc = "built"
    /\ new_rows' = [i \in 1..Len(new_rows) |-> ReconcileRow(new_rows[i], partner_df.cols)]
    /\ merged_df' = ConcatFrames(partner_df, new_rows')
    /\ message' = "Download Final Merged File"
    /\ pc' = "done"
    /\ steps' = steps \cup {"output"}
    /\ UNCHANGED <<fnVars, upc_file, partner_file, button, header_row, upc_df, partner_df,
                   desc_col, upc_col, brand_col, cat_col, new_upcs_df, run, prev_output>>

----------------------------------------------------------------------------
(* The files a user may upload *)

MaxSheetRows == 2
MaxPartnerRows == 2

\* The top of a catalog sheet, lead rows of junk and then the header row:
\* all three columns found by name; under a title line, the UPC column left
\* to the select box; the description left to the select box, over a header
\* cell of one blank (a column named '' after line 56) and a brand column
Layouts ==
    {[lead |-> 0, header |-> <<StrCell(<<"U", "P", "C">>), StrCell(<<" ", "T", "i", "t", "l", "e", " ">>), StrCell(<<"C", "a", "t", "e", "g", "o", "r", "y">>)>>],
     [lead |-> 1, header |-> <<StrCell(<<"C", "o", "d", "e">>), StrCell(<<"T", "i", "t", "l", "e">>), StrCell(<<"P", "a", "t", "h">>)>>],
     [lead |-> 0, header |-> <<StrCell(<<"B", "a", "r", "c", "o", "d", "e">>), StrCell(<<" ">>), StrCell(<<"B", "R", "A", "N", "D">>)>>]}

t_2oz == <<"2", "o", "z">>

\* Data rows of a catalog sheet: UPC, description, category path or brand
r_juice == <<StrCell(<<"0", "-", "5">>), StrCell(t_2oz), StrCell(<<"a", " ", ">", " ", "b">>)>>
r_plain == <<StrCell(<<"7">>), StrCell(<<"x">>), NaN>>

CatalogRows == {r_juice, r_plain}

\* The second sheet of a workbook: no row, one row, two rows
SecondSheets == {<<>>, <<r_plain>>, <<r_plain, r_juice>>}

\* A workbook of two sheets
Workbooks ==
    {[present |-> TRUE, lead |-> l.lead, header |-> l.header, sheets |-> <<s1, s2>>] :
        l \in Layouts,
        s1 \in {<<>>} \cup SeqsUpTo(CatalogRows, MaxSheetRows),
        s2 \in SecondSheets}

\* Column rows of a partner file: 'barcode' first; 'barcode' among columns
\* the new rows compute and one they do not; no 'barcode' at all
PartnerSchemas ==
    {<<"barcode", "name", "ch1Department">>,
     <<"name", "points", "barcode", "sizeValue">>,
     <<"Barcode", "name">>}

\* Barcodes of a partner file: the digits of the first catalog row, and text
\* with no digit
PartnerBarcodes == {StrCell(<<"5">>), StrCell(<<"x">>)}

PartnerRow(cols, b) ==
    [k \in 1..Len(cols) |-> IF cols[k] \in {"barcode", "Barcode"} THEN b ELSE StrCell(<<"p">>)]

PartnerFiles ==
    {[present |-> TRUE, cols |-> c,
      rows |-> [k \in 1..Len(bs) |-> PartnerRow(c, bs[k])]] :
        c \in PartnerSchemas,
        bs \in {<<>>} \cup SeqsUpTo(PartnerBarcodes, MaxPartnerRows)}

\* A cell written by to_excel and read back by read_excel: an empty text
\* comes back missing
ReadBack(c) == IF IsNA(c) \/ (c.k = "str" /\ c.s = <<>>) THEN NaN ELSE c

\* The merged file of line 132, uploaded as a partner file
AsPartnerFile(df) ==
    [present |-> TRUE, cols |-> df.cols,
     rows |-> [r \in 1..Len(df.rows) |->
                  [k \in 1..Len(df.rows[r]) |-> ReadBack(df.rows[r][k])]]]

\* The catalog with no data row left in any sheet
EmptiedCatalog(wb) ==
    [wb EXCEPT !.lead = 0, !.sheets = [s \in 1..Len(wb.sheets) |-> <<>>]]

----------------------------------------------------------------------------
(* The page *)

Init ==
    /\ fn_pc = "off" /\ fn_in = NaN /\ fn_out = NaN
    /\ pc = "idle"
    /\ upc_file = NoCatalog /\ partner_file = NoPartner
    /\ NoRun
    /\ run = "first"
    /\ prev_output = EmptyDF

\* line 41: a catalog workbook is uploaded
UploadCatalog ==
    /\ pc = "idle" /\ run = "first"
    /\ ~upc_file.present
    /\ upc_file' \in Workbooks
    /\ UNCHANGED <<fnVars, pc, partner_file, button, header_row, upc_df, partner_df,
                   desc_col, upc_col, brand_col, cat_col, new_upcs_df, new_rows,
                   merged_df, steps, message, run, prev_output>>

\* line 42: a partner workbook is uploaded
UploadPartner ==
    /\ pc = "idle" /\ run = "first"
    /\ ~partner_file.present
    /\ partner_file' \in PartnerFiles
    /\ UNCHANGED <<fnVars, pc, upc_file, button, header_row, upc_df, partner_df,
                   desc_col, upc_col, brand_col, cat_col, new_upcs_df, new_rows,
                   merged_df, steps, message, run, prev_output>>

\* Every upload runs the script again from its first line
Rerun ==
    /\ pc' = "idle"
    /\ button' = FALSE
    /\ header_row' = 0
    /\ upc_df' = EmptyCatalogDF /\ partner_df' = EmptyDF
    /\ brand_col' = NoCol /\ cat_col' = NoCol
    /\ new_upcs_df' = [parsed |-> FALSE, rows |-> <<>>]
    /\ new_rows' = <<>>
    /\ merged_df' = EmptyDF
    /\ steps' = {}
    /\ message' = "none"

\* The downloaded file is uploaded as the partner file, the catalog stays;
\* the select boxes keep what the user picked
RemergeSameCatalog ==
    /\ pc = "done" /\ run = "first"
    /\ partner_file' = AsPartnerFile(merged_df)
    /\ prev_output' = merged_df
    /\ run' = "same_catalog"
    /\ Rerun
    /\ UNCHANGED <<fnVars, upc_file, desc_col, upc_col>>

\* The downloaded file is uploaded as the partner file, with a catalog that
\* has no rows
RemergeEmptyCatalog ==
    /\ pc = "done" /\ run = "first"
    /\ partner_file' = AsPartnerFile(merged_df)
    /\ upc_file' = EmptiedCatalog(upc_file)
    /\ prev_output' = merged_df
    /\ run' = "empty_catalog"
    /\ Rerun
    /\ UNCHANGED <<fnVars, desc_col, upc_col>>

Next ==
    \/ UploadCatalog
    \/ UploadPartner
    \/ Load
    \/ Resolve
    \/ PressMerge
    \/ Classify
    \/ BuildNewRows
    \/ Output
    \/ RemergeSameCatalog
    \/ RemergeEmptyCatalog

Spec == Init /\ [][Next]_vars

----------------------------------------------------------------------------
(* Properties of a run of the page *)

\* The run has come to its end: a download is offered, or an error is shown
RunEnded == pc \in {"done", "err_sheets", "err_cols", "crashed"}

\* The data rows of the uploaded catalog as the file holds them, before any
\* normalisation: the rows of its sheets of more than one row, sheet after
\* sheet
CatalogData ==
    LET s == upc_file.sheets
    IN  (IF Len(s[1]) > 1 THEN s[1] ELSE <<>>) \o (IF Len(s[2]) > 1 THEN s[2] ELSE <<>>)

\* The barcode cells of the uploaded partner file, as the file holds them
PartnerData == Column(partner_file.rows, ColIndex(partner_file.cols, "barcode"))

\* Row r of the catalog matches some partner row after both normalisations
Matches(r) ==
    \E j \in 1..Len(PartnerData) :
        NormalizeCatalog(CatalogData[r][ColIndex(upc_df.cols, upc_col)])
            = NormalizePartner(PartnerData[j])

\* C3: once the rows are classified, a catalog row is "Existing" exactly
\* when its normalised UPC equals the normalised barcode of some partner
\* row, and "New" otherwise; the new-product set holds exactly the rows
\* classified "New", in the order of the catalog.
C3_Classification ==
    "classify" \in steps =>
        /\ Len(upc_df.status) = Len(CatalogData)
        /\ \A r \in 1..Len(CatalogData) :
              upc_df.status[r] = IF Matches(r) THEN "Existing" ELSE "New"
        /\ {new_upcs_df.rows[i].index : i \in 1..Len(new_upcs_df.rows)}
              = {r \in 1..Len(CatalogData) : ~Matches(r)}
        /\ \A i, j \in 1..Len(new_upcs_df.rows) :
              i < j => new_upcs_df.rows[i].index < new_upcs_df.rows[j].index
        /\ \A i \in 1..Len(new_upcs_df.rows) :
              new_upcs_df.rows[i].cells = upc_df.rows[new_upcs_df.rows[i].index]

\* A second partner row is the one that matches; one catalog row is
\* Existing and another is New
C3_Witness ==
    /\ "classify" \in steps
    /\ Len(PartnerData) = 2
    /\ \E r, q \in 1..Len(CatalogData) :
          /\ upc_df.status[r] = "Existing" /\ upc_df.status[q] = "New"
          /\ NormalizeCatalog(CatalogData[r][ColIndex(upc_df.cols, upc_col)])
                # NormalizePartner(PartnerData[1])
    /\ new_upcs_df.rows # <<>>

\* The columns that lines 108-122 compute for a new row
ComputedColumns ==
    {"barcode", "bh2Brand", "name", "description", "ch1Department", "ch2Category",
     "ch3Segment", "itemCountValue", "itemCountMeasure", "sizeValue", "sizeMeasure",
     "partnerProduct", "awardPoints"}

\* C4: when a merge succeeds, the output's columns are the partner file's
\* columns in the partner file's order, every output row has one cell per
\* such column, the partner rows keep their cells under their columns, and
\* a partner column that the new rows do not compute is null in every new
\* row.
C4_OutputColumns ==
    pc = "done" =>
        LET n == Len(partner_file.rows)
        IN  /\ merged_df.cols = partner_file.cols
            /\ \A r \in 1..Len(merged_df.rows) :
                  Len(merged_df.rows[r]) = Len(partner_file.cols)
            /\ \A r \in 1..n : \A k \in 1..Len(partner_file.cols) :
                  partner_file.cols[k] # "barcode" =>
                      merged_df.rows[r][k] = partner_file.rows[r][k]
            /\ \A r \in (n + 1)..Len(merged_df.rows) : \A k \in 1..Len(partner_file.cols) :
                  LET c == partner_file.cols[k]
                      new == new_upcs_df.rows[r - n]
                      cell == merged_df.rows[r][k]
                  IN  /\ c \notin ComputedColumns => cell = NoneCell
                      /\ c = "barcode" => cell = new.cells[ColIndex(upc_df.cols, upc_col)]
                      /\ c = "name" => cell = new.cells[ColIndex(upc_df.cols, desc_col)]
                      /\ c = "sizeValue" => cell = new.fields.sizeValue
                      /\ c = "ch1Department" => cell = StrCell(new.levels.ch1Department)

\* A merge into a partner file whose columns are not in the order of the
\* computed ones and of which one is not computed, with a new row of a
\* parsed size
C4_Witness ==
    /\ pc = "done"
    /\ partner_file.cols = <<"name", "points", "barcode", "sizeValue">>
    /\ partner_file.rows # <<>>
    /\ \E r \in 1..Len(new_upcs_df.rows) :
          new_upcs_df.rows[r].fields.sizeValue = StrCell(<<"2">>)

\* C5: when a merge succeeds, the output rows are the partner rows in their
\* order (the barcode normalised) and then one row per catalog row
\* classified "New", in the order of the catalog: as many rows as partner
\* rows and New rows together, and no partner row after a new one.
C5_OutputRows ==
    pc = "done" =>
        LET n == Len(partner_file.rows)
            b == ColIndex(partner_file.cols, "barcode")
            new == {r \in 1..Len(upc_df.status) : upc_df.status[r] = "New"}
            \* the position in the catalog of the j-th New row
            nth(j) == CHOOSE r \in new : Cardinality({q \in new : q < r}) = j - 1
        IN  /\ Len(merged_df.rows) = n + Cardinality(new)
            /\ \A r \in 1..n :
                  merged_df.rows[r]
                      = [partner_file.rows[r] EXCEPT ![b] = NormalizePartner(@)]
            /\ \A j \in 1..Cardinality(new) :
                  merged_df.rows[n + j][b]
                      = NormalizeCatalog(CatalogData[nth(j)][ColIndex(upc_df.cols, upc_col)])

\* Two partner rows, then two new rows of different UPCs
C5_Witness ==
    /\ pc = "done"
    /\ Len(partner_file.rows) = 2
    /\ Len(merged_df.rows) = 4
    /\ merged_df.rows[3] # merged_df.rows[4]

\* C6 as claimed: the merge run again with the previous output as partner
\* file and an empty catalog ends with an output file equal to that partner
\* file.
C6_Idempotence ==
    (run = "empty_catalog" /\ RunEnded) =>
        /\ pc = "done"
        /\ merged_df.cols = partner_file.cols
        /\ merged_df.rows = partner_file.rows

\* C6 amended: the merge run again with the previous output as partner file
\* and a catalog of which no sheet has more than one row under its header
\* adds no row because it makes no output at all: the run ends at the load
\* with the error "No usable sheets found.", before the merge button and
\* every later step.
C6_EmptyCatalogNoOutput ==
    (run = "empty_catalog" /\ steps # {}) =>
        /\ pc = "err_sheets"
        /\ message = "No usable sheets found."
        /\ steps = {"load"}
        /\ ~button
        /\ new_rows = <<>>
        /\ merged_df = EmptyDF

\* The second run, over an output of partner rows and new rows, has ended
C6_Witness ==
    /\ run = "empty_catalog"
    /\ pc = "err_sheets"
    /\ Len(prev_output.rows) = 3
    /\ partner_file = AsPartnerFile(prev_output)

\* C7: an output is made only with both files uploaded, a catalog sheet of
\* more than one data row, a description and a UPC column resolved, and the
\* button pressed; with no sheet of more than one data row, or a required
\* column unresolved, the run ends with the error shown and none of
\* normalisation, classification, build or output run.
C7_Guards ==
    /\ (pc = "done" \/ merged_df # EmptyDF) =>
          /\ upc_file.present /\ partner_file.present
          /\ \E s \in 1..Len(upc_file.sheets) : Len(upc_file.sheets[s]) > 1
          /\ ~Falsy(desc_col) /\ ~Falsy(upc_col)
          /\ button
    /\ (steps # {} /\ \A s \in 1..Len(upc_file.sheets) : Len(upc_file.sheets[s]) <= 1) =>
          /\ pc = "err_sheets"
          /\ message = "No usable sheets found."
          /\ steps = {"load"}
          /\ ~button /\ merged_df = EmptyDF
    /\ ("resolve" \in steps /\ (Falsy(desc_col) \/ Falsy(upc_col))) =>
          /\ pc = "err_cols"
          /\ message = "Description and barcode column are required."
          /\ steps = {"load", "resolve"}
          /\ ~button /\ merged_df = EmptyDF

\* A first run stopped by a catalog whose fullest sheet has one data row
C7_Witness ==
    /\ run = "first"
    /\ pc = "err_sheets"
    /\ \E s \in 1..Len(upc_file.sheets) : Len(upc_file.sheets[s]) = 1

\* C10: after a successful merge, the merge run again with the same catalog
\* and the first output as partner file classifies every catalog row as
\* "Existing" and ends with an output of exactly the rows of the first
\* output.
C10_RemergeStable ==
    (run = "same_catalog" /\ RunEnded) =>
        /\ \A r \in 1..Len(upc_df.status) : upc_df.status[r] = "Existing"
        /\ pc = "done"
        /\ Len(merged_df.rows) = Len(prev_output.rows)
        /\ merged_df.rows = partner_df.rows

====
